---- MODULE Spec2Model ----
(***************************************************************************)
(* persim/visuals.py: plot_diagrams, bottleneck_matching,                  *)
(* wasserstein_matching and Barcode, as a state machine over               *)
(*   heap   the caller-owned diagram arrays (address 1 = I1, 2 = I2),      *)
(*   orig   their contents at construction (history, never written),       *)
(*   gca    matplotlib's process-wide current axes,                        *)
(*   out    what the last call put on the canvases, with its arguments.    *)
(* Numbers are exact fixed-point values in units of 1/Scale; +infinity is  *)
(* the value Inf.  Floating-point rounding (float32 copies) is abstracted. *)
(* An array lives at an address of the heap: a copy gets a fresh address,  *)
(* a view keeps the address, and the temporaries of a call are dropped     *)
(* when it returns.  Styling (colormap, title, legend, aspect, spines) and *)
(* png export draw no geometry and are left out; Barcode is called with    *)
(* show=False.  D is given at the pairs of matchidx, the entries read.     *)
(***************************************************************************)
EXTENDS Integers, Sequences, FiniteSets

VARIABLES heap, orig, gca, out

vars == <<heap, orig, gca, out>>

\* ---------------------------------------------------------------- bounds
MaxVal == 1      \* births and finite deaths are 0..MaxVal
MaxLen == 1      \* points of a caller diagram (plot and matching specs)
MaxBars == 2     \* bars of the first diagram handed to Barcode
MaxMatch == 2    \* entries of matchidx
MaxD == 1        \* entries of the cross-similarity matrix are 0..MaxD
NAxes == 2       \* axes objects the caller holds

\* ------------------------------------------------------------ arithmetic
Scale == 1000
Inf == 1000000000

isinf(v) == v = Inf

isfinite(v) == v # Inf

\* float subtraction: inf - finite = inf
fsub(a, b) == IF isinf(a) THEN Inf ELSE a - b

SetMin(S) == CHOOSE m \in S : \A x \in S : m <= x

SetMax(S) == CHOOSE m \in S : \A x \in S : m >= x

Range(s) == {s[k] : k \in 1..Len(s)}

SeqsUpTo(S, n) == UNION {[1..k -> S] : k \in 0..n}

Values == {v * Scale : v \in 0..MaxVal}

\* a persistence pair <<birth, death>>, death finite or +inf
Points == {p \in Values \X (Values \cup {Inf}) : p[1] <= p[2]}

Dgms(n) == SeqsUpTo(Points, n)

Axes == 1..NAxes

NoAx == 0

\* python strings are sequences of characters
DefaultLabels ==
  << <<"$","H","_","0","$">>, <<"$","H","_","1","$">>, <<"$","H","_","2","$">>,
     <<"$","H","_","3","$">>, <<"$","H","_","4","$">>, <<"$","H","_","5","$">>,
     <<"$","H","_","6","$">>, <<"$","H","_","7","$">>, <<"$","H","_","8","$">> >>

MatchLabels == << <<"d","g","m","1">>, <<"d","g","m","2">> >>

InfLabel == <<"$","\\","i","n","f","t","y","$">>

NoLabel == <<>>

\* one call into the plotting library
Draw(axis, kind, xs, ys, fmt, label) ==
  [axis |-> axis, kind |-> kind, xs |-> xs, ys |-> ys, fmt |-> fmt, label |-> label]

NoArgs == [none |-> TRUE]

NoOut == [op |-> "none", args |-> NoArgs, status |-> "none", draws |-> <<>>,
          xlim |-> <<>>, ylim |-> <<>>]

\* --------------------------------------------------------- plot_diagrams
\* labels is None, a list of strings or one string; v holds the strings of a
\* list, or the characters of a string (each a string of length one)
LabelsNone == [kind |-> "none", v |-> <<>>]

LabelsList(v) == [kind |-> "list", v |-> v]

LabelsStr(v) == [kind |-> "str", v |-> v]

\* lines 70-82: labels defaults to the nine strings $H_0$ .. $H_8$
LabelsOrDefault(labels) ==
  IF labels.kind = "none" THEN LabelsList(DefaultLabels) ELSE labels

\* labels[i]: an element of a list, or the i-th character of a string
LabelItem(labels, i) == labels.v[i + 1]

\* the whole string, from its characters
RECURSIVE Join(_)
Join(chars) == IF chars = <<>> THEN <<>> ELSE Head(chars) \o Join(Tail(chars))

\* lines 88-90 raise IndexError when an index of plot_only is out of range
PlotOnlyIndexError(diagrams, labels, plot_only) ==
  \E k \in 1..Len(plot_only) :
     plot_only[k] >= Len(diagrams) \/ plot_only[k] >= Len(labels.v)

\* line 89
PlotOnlyDiagrams(diagrams, plot_only) ==
  IF plot_only # <<>>
  THEN [k \in 1..Len(plot_only) |-> diagrams[plot_only[k] + 1]]
  ELSE diagrams

\* line 90: the comprehension always yields a list
PlotOnlyLabels(labels, plot_only) ==
  IF plot_only # <<>>
  THEN LabelsList([k \in 1..Len(plot_only) |-> LabelItem(labels, plot_only[k])])
  ELSE labels

\* lines 92-93
BroadcastLabels(labels, n) ==
  IF labels.kind # "list" THEN [k \in 1..n |-> Join(labels.v)] ELSE labels.v

\* line 97, dgm.astype(np.float32, copy=True): the result is a new array
AstypeView(r, fresh) == r

Astype(r, fresh) == fresh

\* line 100: the values of the working arrays w in heap h
ConcatDgms(h, w) ==
  UNION {UNION {{h[w[k]][i][1], h[w[k]][i][2]} : i \in 1..Len(h[w[k]])} : k \in 1..Len(w)}

\* xy_range is None or [] (written <<>>), the number 0 (written <<0>>) or a
\* list of four numbers; line 105 tests its truth value
Falsy(xy_range) == xy_range = <<>> \/ xy_range = <<0>>

\* line 112
BufferOf(xy_range, x_r) ==
  IF xy_range = <<0>> THEN Scale ELSE x_r \div 5

\* lines 105-119: <<x_down, x_up, y_down, y_up>>
Bounds(xy_range, finite_dgms) ==
  IF Falsy(xy_range)
  THEN LET ax_min == SetMin(finite_dgms)
           ax_max == SetMax(finite_dgms)
           x_r    == ax_max - ax_min
           buffer == BufferOf(xy_range, x_r)
           x_down == ax_min - buffer \div 2
           x_up   == ax_max + buffer
       IN  <<x_down, x_up, x_down, x_up>>
  ELSE xy_range

\* line 137, dgm[:, 1] -= dgm[:, 0]
LifetimeNoShift(dgm) == dgm

LifetimeOf(dgm) == [i \in 1..Len(dgm) |-> <<dgm[i][1], fsub(dgm[i][2], dgm[i][1])>>]

\* lines 136-137, in place on each working array in turn
RECURSIVE ApplyLifetime(_, _, _)
ApplyLifetime(h, w, k) ==
  IF k > Len(w) THEN h
  ELSE ApplyLifetime([h EXCEPT ![w[k]] = LifetimeOf(h[w[k]])], w, k + 1)

\* line 149
InfSentinel(y_down, yr) == y_down + (yr * 95) \div 100

\* line 154, dgm[np.isinf(dgm)] = b_inf
ReplaceInf(dgm, b_inf) ==
  [i \in 1..Len(dgm) |->
     <<IF isinf(dgm[i][1]) THEN b_inf ELSE dgm[i][1],
       IF isinf(dgm[i][2]) THEN b_inf ELSE dgm[i][2]>>]

\* lines 153-154
RECURSIVE ApplyReplaceInf(_, _, _, _)
ApplyReplaceInf(h, w, b_inf, k) ==
  IF k > Len(w) THEN h
  ELSE ApplyReplaceInf([h EXCEPT ![w[k]] = ReplaceInf(h[w[k]], b_inf)], w, b_inf, k + 1)

Column(dgm, c) == [i \in 1..Len(dgm) |-> dgm[i][c]]

Min2(a, b) == IF a <= b THEN a ELSE b

\* lines 157-160: zip stops at the shorter of diagrams and labels
ZipLen(n, m) == Min2(n, m)

Scatters(axis, h, w, labels) ==
  [k \in 1..ZipLen(Len(w), Len(labels)) |->
     Draw(axis, "scatter", Column(h[w[k]], 1), Column(h[w[k]], 2), "none", labels[k])]

PlotResult(h, status, draws, xlim, ylim) ==
  [heap |-> h, status |-> status, draws |-> draws, xlim |-> xlim, ylim |-> ylim]

\* lines 65-176, on heap h with current axes g; a is the record of arguments
plot_diagrams(h, g, a) ==
  LET ax      == IF a.ax = NoAx THEN g ELSE a.ax
      labels0 == LabelsOrDefault(a.labels)
      sel     == a.plot_only # <<>>
  IN
  IF sel /\ PlotOnlyIndexError(a.diagrams, labels0, a.plot_only)
  THEN PlotResult(h, "IndexError", <<>>, <<>>, <<>>)
  ELSE
  LET diagrams == PlotOnlyDiagrams(a.diagrams, a.plot_only)
      labels   == BroadcastLabels(PlotOnlyLabels(labels0, a.plot_only), Len(diagrams))
      n        == Len(diagrams)
      h1       == h \o [k \in 1..n |-> h[diagrams[k]]]
      w        == [k \in 1..n |-> Astype(diagrams[k], Len(h) + k)]
      concat_dgms == ConcatDgms(h1, w)
      has_inf     == \E v \in concat_dgms : isinf(v)
      finite_dgms == {v \in concat_dgms : isfinite(v)}
  IN
  IF n = 0 \/ (Falsy(a.xy_range) /\ finite_dgms = {})
  THEN PlotResult(h1, "ValueError", <<>>, <<>>, <<>>)
  ELSE
  LET b       == Bounds(a.xy_range, finite_dgms)
      x_down  == b[1]
      x_up    == b[2]
      yr      == b[4] - b[3]
      diagonal == IF a.lifetime THEN FALSE ELSE a.diagonal
      y_down  == IF a.lifetime THEN 0 - (yr * 5) \div 100 ELSE b[3]
      y_up    == IF a.lifetime THEN y_down + yr ELSE b[4]
      h2      == IF a.lifetime THEN ApplyLifetime(h1, w, 1) ELSE h1
      horizon == IF a.lifetime
                 THEN <<Draw(ax, "plot", <<x_down, x_up>>, <<0, 0>>, "-", NoLabel)>>
                 ELSE <<>>
      diag    == IF diagonal
                 THEN <<Draw(ax, "plot", <<x_down, x_up>>, <<x_down, x_up>>, "--", NoLabel)>>
                 ELSE <<>>
      b_inf   == InfSentinel(y_down, yr)
      infline == IF has_inf
                 THEN <<Draw(ax, "plot", <<x_down, x_up>>, <<b_inf, b_inf>>, "--", InfLabel)>>
                 ELSE <<>>
      h3      == IF has_inf THEN ApplyReplaceInf(h2, w, b_inf, 1) ELSE h2
  IN PlotResult(h3, "ok", horizon \o diag \o infline \o Scatters(ax, h3, w, labels),
                <<x_down, x_up>>, <<y_down, y_up>>)

PlotArgs(diagrams, plot_only, xy_range, labels, diagonal, lifetime, ax) ==
  [diagrams |-> diagrams, plot_only |-> plot_only, xy_range |-> xy_range,
   labels |-> labels, diagonal |-> diagonal, lifetime |-> lifetime, ax |-> ax]

\* ------------------------------------------------- matching visualisations
ZeroDgm == << <<0, 0>> >>

\* lines 211-214 and 261-264: an empty diagram becomes np.array([[0, 0]])
Placeholder(I) == IF Len(I) = 0 THEN ZeroDgm ELSE I

fadd(a, b) == IF isinf(a) \/ isinf(b) THEN Inf ELSE a + b

\* lines 215-216, first column of I.dot(R), in units of 1/sqrt(2)
RotFirst(p) == fadd(p[1], p[2])

\* lines 222-223: np.array([rot, 0]).dot(R.T), back in plot units
DiagElem(rot) == IF isinf(rot) THEN <<Inf, Inf>> ELSE <<rot \div 2, rot \div 2>>

\* lines 219 and 269: both indices name the diagonal
BothOutOfRangeOr(I1, I2, i, j) == i >= Len(I1) \/ j >= Len(I2)

BothOutOfRange(I1, I2, i, j) == i >= Len(I1) /\ j >= Len(I2)

\* lines 219-230 and 269-280: the plt.plot call for the pair (i, j), if any;
\* plt.plot draws on the current axes g
MatchSegment(g, I1, I2, i, j) ==
  IF BothOutOfRange(I1, I2, i, j) THEN <<>>
  ELSE IF i >= Len(I1)
  THEN LET diagElem == DiagElem(RotFirst(I2[j + 1]))
       IN  <<Draw(g, "plot", <<I2[j + 1][1], diagElem[1]>>,
                  <<I2[j + 1][2], diagElem[2]>>, "g", NoLabel)>>
  ELSE IF j >= Len(I2)
  THEN LET diagElem == DiagElem(RotFirst(I1[i + 1]))
       IN  <<Draw(g, "plot", <<I1[i + 1][1], diagElem[1]>>,
                  <<I1[i + 1][2], diagElem[2]>>, "g", NoLabel)>>
  ELSE <<Draw(g, "plot", <<I1[i + 1][1], I2[j + 1][1]>>,
              <<I1[i + 1][2], I2[j + 1][2]>>, "g", NoLabel)>>

\* np.argmax: the first position of the largest entry
ArgMax(dists) ==
  CHOOSE k \in 1..Len(dists) :
     /\ \A m \in 1..Len(dists) : dists[m] <= dists[k]
     /\ \A m \in 1..(k - 1) : dists[m] < dists[k]

MatchPlotArgs(r1, r2, ax) ==
  PlotArgs(<<r1, r2>>, <<>>, <<>>, LabelsList(MatchLabels), TRUE, FALSE, ax)

\* lines 207-230; a = [matchidx, D, ax], I1 and I2 are the arrays at 1 and 2
bottleneck_matching(h, g, a) ==
  LET r == plot_diagrams(h, g, MatchPlotArgs(1, 2, a.ax))
  IN
  IF r.status # "ok" THEN r
  ELSE
  LET I1 == Placeholder(r.heap[1])
      I2 == Placeholder(r.heap[2])
      dists == [k \in 1..Len(a.matchidx) |-> a.D[a.matchidx[k]]]
  IN
  IF a.matchidx = <<>>
  THEN PlotResult(r.heap, "ValueError", r.draws, r.xlim, r.ylim)
  ELSE
  LET ij == a.matchidx[ArgMax(dists)]
  IN PlotResult(r.heap, "ok", r.draws \o MatchSegment(g, I1, I2, ij[1], ij[2]),
                r.xlim, r.ylim)

\* lines 267-280
RECURSIVE MatchSegments(_, _, _, _, _)
MatchSegments(g, I1, I2, matchidx, k) ==
  IF k > Len(matchidx) THEN <<>>
  ELSE MatchSegment(g, I1, I2, matchidx[k][1], matchidx[k][2])
       \o MatchSegments(g, I1, I2, matchidx, k + 1)

\* lines 258-282; a = [matchidx, ax]
wasserstein_matching(h, g, a) ==
  LET e1 == Len(h[1]) = 0
      e2 == Len(h[2]) = 0
      hx == h \o (IF e1 THEN <<ZeroDgm>> ELSE <<>>) \o (IF e2 THEN <<ZeroDgm>> ELSE <<>>)
      r1 == IF e1 THEN Len(h) + 1 ELSE 1
      r2 == IF e2 THEN Len(hx) ELSE 2
      segs == MatchSegments(g, hx[r1], hx[r2], a.matchidx, 1)
      r  == plot_diagrams(hx, g, MatchPlotArgs(r1, r2, a.ax))
  IN PlotResult(r.heap, r.status, segs \o r.draws, r.xlim, r.ylim)

\* ---------------------------------------------------------------- Barcode
\* line 447
ClampInf(max_death) == (max_death * 105) \div 100

\* lines 419-420: enumerate pairs each bar with its position
SlotZero(i) == 0

Slot(i) == i

\* lines 445-456; birth and death are the rows (value, slot)
plot_a_bar(axis, birth, death, max_death) ==
  LET d == IF isinf(death[1]) THEN ClampInf(max_death) ELSE death[1]
  IN (IF isinf(death[1])
      THEN <<Draw(axis, "plot", <<d>>, <<death[2]>>, ">", NoLabel)>>
      ELSE <<>>)
     \o <<Draw(axis, "plot", <<birth[1], d>>, <<birth[2], death[2]>>, "-", NoLabel)>>

RECURSIVE PlotBars(_, _, _, _, _)
PlotBars(axis, births, deaths, max_death, i) ==
  IF i > Len(births) THEN <<>>
  ELSE plot_a_bar(axis, births[i], deaths[i], max_death)
       \o PlotBars(axis, births, deaths, max_death, i + 1)

BarResult(status, draws) == [status |-> status, draws |-> draws]

\* lines 414-442
plot_many_bars(dim, diagram, axis) ==
  LET number_of_bars == Len(diagram)
      births == [i \in 1..number_of_bars |-> <<diagram[i][1], Slot(i - 1)>>]
      deaths == [i \in 1..number_of_bars |-> <<diagram[i][2], Slot(i - 1)>>]
      inf_bars == {i \in 1..number_of_bars : isinf(deaths[i][1])}
      fin_deaths == {deaths[i][1] : i \in {k \in 1..number_of_bars : isfinite(deaths[k][1])}}
  IN
  IF number_of_bars = 0 THEN BarResult("UnboundLocalError", <<>>)
  ELSE IF fin_deaths = {} THEN BarResult("ValueError", <<>>)
  ELSE
  LET max_death == SetMax(fin_deaths)
      number_of_bars_fin == Len(births) - Cardinality(inf_bars)
      number_of_bars_inf == Cardinality(inf_bars)
  IN BarResult("ok",
       PlotBars(axis, births, deaths, max_death, 1)
       \o <<Draw(axis, "plot", <<max_death, max_death>>, <<0, number_of_bars - 1>>,
                 "r--", NoLabel),
            Draw(axis, "title", <<dim, number_of_bars_fin, number_of_bars_inf>>,
                 <<>>, "", NoLabel)>>)

\* the axes plt.subplots creates for panel/figure dim
PanelAxis(dim) == NAxes + 1 + dim

\* lines 350-351 and 397-400: one panel per diagram, stopping at an exception
RECURSIVE PlotPanels(_, _, _)
PlotPanels(h, diagrams, dim) ==
  IF dim >= Len(diagrams) THEN BarResult("ok", <<>>)
  ELSE LET r == plot_many_bars(dim, h[diagrams[dim + 1]], PanelAxis(dim))
       IN  IF r.status # "ok" THEN r
           ELSE LET rest == PlotPanels(h, diagrams, dim + 1)
                IN  BarResult(rest.status, r.draws \o rest.draws)

\* ---------------------------------------------------------------- actions
CallerHeap(h) == SubSeq(h, 1, 2)

Result(op, a, r) ==
  [op |-> op, args |-> a, status |-> r.status, draws |-> r.draws,
   xlim |-> r.xlim, ylim |-> r.ylim]

\* the caller renders on a clean canvas: a call starts when the last figure
\* has been shown
Idle == out.op = "none"

PlotDiagrams(a) ==
  /\ Idle
  /\ LET r == plot_diagrams(heap, gca, a)
     IN  /\ heap' = CallerHeap(r.heap)
         /\ out' = Result("plot_diagrams", a, r)
  /\ UNCHANGED <<orig, gca>>

BottleneckMatching(a) ==
  /\ Idle
  /\ LET r == bottleneck_matching(heap, gca, a)
     IN  /\ heap' = CallerHeap(r.heap)
         /\ out' = Result("bottleneck_matching", a, r)
  /\ UNCHANGED <<orig, gca>>

WassersteinMatching(a) ==
  /\ Idle
  /\ LET r == wasserstein_matching(heap, gca, a)
     IN  /\ heap' = CallerHeap(r.heap)
         /\ out' = Result("wasserstein_matching", a, r)
  /\ UNCHANGED <<orig, gca>>

\* the panels plt.subplots had created when plot_barcode returned or raised
PanelsCreated(diagrams, r) ==
  IF Len(diagrams) = 2 THEN 2
  ELSE IF r.status = "ok" THEN Len(diagrams)
  ELSE Cardinality({r.draws[k].axis : k \in 1..Len(r.draws)}) + 1

\* Barcode(diagrams).plot_barcode(show=False), lines 305-314, 348-351, 397-400
PlotBarcode(diagrams) ==
  /\ Idle
  /\ LET r == PlotPanels(heap, diagrams, 0)
         n == PanelsCreated(diagrams, r)
     IN  /\ out' = [op |-> "plot_barcode", args |-> [diagrams |-> diagrams],
                    status |-> r.status, draws |-> r.draws, xlim |-> <<>>, ylim |-> <<>>]
         /\ gca' = IF n = 0 THEN gca ELSE PanelAxis(n - 1)
  /\ UNCHANGED <<heap, orig>>

\* plt.sca(ax): the caller makes one of its axes current
SetCurrentAxis(a) ==
  /\ Idle
  /\ a # gca
  /\ gca' = a
  /\ UNCHANGED <<heap, orig, out>>

\* plt.show(), called once at the end (lines 60-62): the figure is displayed
\* and released, the next render starts on a clean canvas
Show ==
  /\ ~Idle
  /\ out' = NoOut
  /\ UNCHANGED <<heap, orig, gca>>

\* ------------------------------------------------------- inputs and specs
XYRanges == {<<0, (MaxVal + 1) * Scale, 0, (MaxVal + 1) * Scale>>,
             <<0 - Scale, MaxVal * Scale, 0, (MaxVal + 2) * Scale>>}

GeomArgs ==
  {PlotArgs(d, <<>>, xy, LabelsNone, dg, lt, ax) :
     d \in {<<1, 2>>, <<1>>}, xy \in {<<>>} \cup XYRanges,
     dg \in BOOLEAN, lt \in BOOLEAN, ax \in {NoAx, NAxes}}

LabelChoices ==
  {LabelsNone, LabelsList(<< <<"a">> >>), LabelsList(<< <<"a">>, <<"b">> >>),
   LabelsStr(<< <<"a">> >>), LabelsStr(<< <<"a">>, <<"b">> >>)}

LabelArgs ==
  {PlotArgs(d, po, <<>>, l, TRUE, FALSE, NoAx) :
     d \in {<<1, 2>>, <<1>>}, po \in SeqsUpTo(0..1, 2), l \in LabelChoices}

Pairs == (0..MaxLen) \X (0..MaxLen)

PairLess(p, q) == p[1] < q[1] \/ (p[1] = q[1] /\ p[2] < q[2])

\* matchidx is an ordered set of index pairs: entries distinct, in index order
MatchIdxs ==
  {m \in SeqsUpTo(Pairs, MaxMatch) :
     \A k \in 1..(Len(m) - 1) : PairLess(m[k], m[k + 1])}

\* D is read at the pairs of matchidx only (line 217)
BottleneckArgs ==
  UNION {{[matchidx |-> m, D |-> D, ax |-> ax] :
            D \in [Range(m) -> 0..MaxD], ax \in {NoAx} \cup Axes} : m \in MatchIdxs}

WassersteinArgs ==
  {[matchidx |-> m, ax |-> ax] : m \in MatchIdxs, ax \in {NoAx} \cup Axes}

WassersteinArgsNoAx == {[matchidx |-> m, ax |-> NoAx] : m \in MatchIdxs}

BarcodeArgs == {<<1>>, <<1, 2>>}

InitWith(n1, n2) ==
  /\ heap \in Dgms(n1) \X Dgms(n2)
  /\ orig = heap
  /\ gca = 1
  /\ out = NoOut

\* plot_diagrams: bounds, lifetime and infinity handling
InitPlot == InitWith(MaxLen, MaxLen)

NextPlot ==
  \/ \E a \in GeomArgs : PlotDiagrams(a)
  \/ Show

SpecPlot == InitPlot /\ [][NextPlot]_vars

\* plot_diagrams: plot_only and labels
NextLabels ==
  \/ \E a \in LabelArgs : PlotDiagrams(a)
  \/ Show

SpecLabels == InitPlot /\ [][NextLabels]_vars

\* the matching visualisations
NextMatch ==
  \/ \E a \in BottleneckArgs : BottleneckMatching(a)
  \/ \E a \in WassersteinArgs : WassersteinMatching(a)
  \/ \E a \in Axes : SetCurrentAxis(a)
  \/ Show

SpecMatch == InitPlot /\ [][NextMatch]_vars

\* wasserstein_matching on the current axes
NextWasserstein ==
  \/ \E a \in WassersteinArgsNoAx : WassersteinMatching(a)
  \/ Show

SpecWasserstein == InitPlot /\ [][NextWasserstein]_vars

\* Barcode
InitBar == InitWith(MaxBars, MaxLen)

NextBar ==
  \/ \E d \in BarcodeArgs : PlotBarcode(d)
  \/ Show

SpecBar == InitBar /\ [][NextBar]_vars

\* every public operation, in any order
SeqArgsPlot ==
  {PlotArgs(d, po, xy, LabelsNone, TRUE, lt, NoAx) :
     d \in {<<1, 2>>}, po \in {<<>>, <<1>>}, xy \in {<<>>} \cup XYRanges, lt \in BOOLEAN}

OnePair == {<<p>> : p \in {<<0, 0>>, <<0, MaxLen>>, <<MaxLen, 0>>}}

SeqArgsBottleneck ==
  {[matchidx |-> m, D |-> [p \in Range(m) |-> 0], ax |-> NoAx] : m \in OnePair}

SeqArgsWasserstein == {[matchidx |-> m, ax |-> NoAx] : m \in OnePair}

Init == InitPlot

Next ==
  \/ \E a \in SeqArgsPlot : PlotDiagrams(a)
  \/ \E a \in SeqArgsBottleneck : BottleneckMatching(a)
  \/ \E a \in SeqArgsWasserstein : WassersteinMatching(a)
  \/ \E d \in BarcodeArgs : PlotBarcode(d)
  \/ Show

Spec == Init /\ [][Next]_vars

\* ================================================================ claims
IsScatter(d) == d.kind = "scatter"

IsConnector(d) == d.kind = "plot" /\ d.fmt = "g"

IsDiagonalLine(d) == d.kind = "plot" /\ d.fmt = "--" /\ d.label = NoLabel

ScatterDraws == SelectSeq(out.draws, IsScatter)

Connectors == SelectSeq(out.draws, IsConnector)

\* the caller's diagram plotted as series k, and the values it held at construction
PlottedRefs ==
  IF out.args.plot_only # <<>>
  THEN [k \in 1..Len(out.args.plot_only) |-> out.args.diagrams[out.args.plot_only[k] + 1]]
  ELSE out.args.diagrams

OrigFinite ==
  {v \in UNION {UNION {{orig[PlottedRefs[k]][i][1], orig[PlottedRefs[k]][i][2]} :
                         i \in 1..Len(orig[PlottedRefs[k]])} : k \in 1..Len(PlottedRefs)} :
     v # Inf}

PlotOk == out.op = "plot_diagrams" /\ out.status = "ok"

\* C1: with inferred bounds and at least one finite value, x_min < x_max,
\* y_min < y_max and the bounds enclose every finite value, a single repeated
\* value included.
C1_InferredBoundsNondegenerate ==
  (PlotOk /\ out.args.xy_range = <<>> /\ ~out.args.lifetime) =>
     /\ out.xlim[1] < out.xlim[2]
     /\ out.ylim[1] < out.ylim[2]
     /\ \A v \in OrigFinite :
          /\ out.xlim[1] <= v /\ v <= out.xlim[2]
          /\ out.ylim[1] <= v /\ v <= out.ylim[2]

\* C1, the part the code does satisfy: the inferred bounds enclose the finite
\* values, strictly apart whenever two finite values differ.
C1_BoundsEncloseValues ==
  (PlotOk /\ out.args.xy_range = <<>> /\ ~out.args.lifetime) =>
     /\ \A v \in OrigFinite : out.xlim[1] <= v /\ v <= out.xlim[2]
     /\ out.ylim = out.xlim
     /\ (Cardinality(OrigFinite) > 1 => out.xlim[1] < out.xlim[2])

\* C2: every entry that was +infinity is plotted strictly between the final
\* y_min and y_max, in both modes, for inferred and explicit bounds.
C2_InfSentinelInside ==
  PlotOk =>
     \A k \in 1..Len(ScatterDraws) : \A i \in 1..Len(orig[PlottedRefs[k]]) :
        orig[PlottedRefs[k]][i][2] = Inf =>
           /\ out.ylim[1] < ScatterDraws[k].ys[i]
           /\ ScatterDraws[k].ys[i] < out.ylim[2]

\* C2 where the y-range has positive height (every case but the degenerate
\* inferred range of C1).
C2_InfSentinelInsideProperRange ==
  (PlotOk /\ out.ylim[1] < out.ylim[2]) =>
     \A k \in 1..Len(ScatterDraws) : \A i \in 1..Len(orig[PlottedRefs[k]]) :
        orig[PlottedRefs[k]][i][2] = Inf =>
           /\ out.ylim[1] < ScatterDraws[k].ys[i]
           /\ ScatterDraws[k].ys[i] < out.ylim[2]

\* the diagrams the matching code indexes: an empty one counts as the single
\* placeholder point (0, 0)
EffLen(d) == IF Len(d) = 0 THEN 1 ELSE Len(d)

PointAt(d, i) == IF Len(d) = 0 THEN <<0, 0>> ELSE d[i + 1]

Degenerate(p) == p[1] >= EffLen(orig[1]) /\ p[2] >= EffLen(orig[2])

MaximalAt(k) ==
  \A m \in 1..Len(out.args.matchidx) :
     out.args.D[out.args.matchidx[m]] <= out.args.D[out.args.matchidx[k]]

\* C3: bottleneck_matching draws exactly one connector, for a pair of matchidx
\* with maximal D, none if that pair is out of range on both sides, and never
\* more than one.
C3_BottleneckOneConnector ==
  (out.op = "bottleneck_matching" /\ out.args.matchidx # <<>>) =>
     /\ Len(Connectors) <= 1
     /\ \E k \in 1..Len(out.args.matchidx) :
          /\ MaximalAt(k)
          /\ Len(Connectors) = IF Degenerate(out.args.matchidx[k]) THEN 0 ELSE 1

\* C3 on the calls that return: the same statement where plot_diagrams did
\* not raise.
C3_BottleneckOneConnectorWhenOk ==
  (out.op = "bottleneck_matching" /\ out.status = "ok") =>
     /\ Len(Connectors) <= 1
     /\ \E k \in 1..Len(out.args.matchidx) :
          /\ MaximalAt(k)
          /\ \A m \in 1..(k - 1) : ~MaximalAt(m)
          /\ Len(Connectors) = IF Degenerate(out.args.matchidx[k]) THEN 0 ELSE 1

\* the entries of matchidx that are not out of range on both sides, in order
RECURSIVE LivePairs(_, _)
LivePairs(m, k) ==
  IF k > Len(m) THEN <<>>
  ELSE (IF Degenerate(m[k]) THEN <<>> ELSE <<m[k]>>) \o LivePairs(m, k + 1)

Finite2(p) == p[1] # Inf /\ p[2] # Inf

\* the segment c starts at p and ends at the foot of the perpendicular from p
\* to the diagonal
JoinsToDiagonal(c, p) ==
  /\ c.xs[1] = p[1] /\ c.ys[1] = p[2]
  /\ Finite2(p) => /\ c.xs[2] = c.ys[2]
                   /\ (c.xs[2] - p[1]) + (c.ys[2] - p[2]) = 0

JoinsPoints(c, p, q) == c.xs = <<p[1], q[1]>> /\ c.ys = <<p[2], q[2]>>

ConnectorFits(c, ij) ==
  LET i == ij[1]
      j == ij[2]
  IN  IF i >= EffLen(orig[1]) THEN JoinsToDiagonal(c, PointAt(orig[2], j))
      ELSE IF j >= EffLen(orig[2]) THEN JoinsToDiagonal(c, PointAt(orig[1], i))
      ELSE JoinsPoints(c, PointAt(orig[1], i), PointAt(orig[2], j))

\* C4: wasserstein_matching draws one connector per entry of matchidx that is
\* not out of range on both sides, as many as entries minus such pairs; a pair
\* out of range on one side joins the other point to its projection on the
\* diagonal, a pair in range joins the two points.
C4_WassersteinConnectors ==
  out.op = "wasserstein_matching" =>
     LET live == LivePairs(out.args.matchidx, 1)
         dead == {k \in 1..Len(out.args.matchidx) : Degenerate(out.args.matchidx[k])}
     IN  /\ Len(Connectors) = Len(out.args.matchidx) - Cardinality(dead)
         /\ Len(Connectors) = Len(live)
         /\ \A k \in 1..Len(live) : ConnectorFits(Connectors[k], live[k])

\* a call with a pair dropped and a pair joined to a projection off its point
C4_Witness ==
  /\ out.op = "wasserstein_matching"
  /\ Len(out.args.matchidx) = 2
  /\ Len(Connectors) = 1
  /\ \E k \in 1..2 : Degenerate(out.args.matchidx[k])
  /\ Connectors[1].xs[1] # Connectors[1].xs[2]
  /\ Connectors[1].xs[2] = Connectors[1].ys[2]

\* C5: on two empty diagrams with matchidx = [(0, 0)] both matching functions
\* return normally, having drawn the single connector from (0, 0) to (0, 0).
C5_EmptyDiagramsComplete ==
  (/\ out.op \in {"bottleneck_matching", "wasserstein_matching"}
   /\ orig = << <<>>, <<>> >>
   /\ out.args.matchidx = << <<0, 0>> >>) =>
     /\ out.status = "ok"
     /\ Len(Connectors) = 1
     /\ Connectors[1].xs = <<0, 0>> /\ Connectors[1].ys = <<0, 0>>

\* C5 for wasserstein_matching alone, which substitutes before it plots.
C5_EmptyDiagramsWasserstein ==
  (/\ out.op = "wasserstein_matching"
   /\ orig = << <<>>, <<>> >>
   /\ out.args.matchidx = << <<0, 0>> >>) =>
     /\ out.status = "ok"
     /\ Len(Connectors) = 1
     /\ Connectors[1].xs = <<0, 0>> /\ Connectors[1].ys = <<0, 0>>

\* C9: with ax supplied, every connector and both scatter series are on ax and
\* nothing is drawn elsewhere; bottleneck_matching scatters before it connects.
C9_DrawsOnSuppliedAxis ==
  (/\ out.op \in {"bottleneck_matching", "wasserstein_matching"}
   /\ out.args.ax # NoAx) =>
     /\ \A k \in 1..Len(out.draws) : out.draws[k].axis = out.args.ax
     /\ out.op = "bottleneck_matching" =>
          \A k, m \in 1..Len(out.draws) :
             (IsScatter(out.draws[k]) /\ IsConnector(out.draws[m])) => k < m

\* C9 without the connectors: the diagrams go to ax, the connectors to the
\* current axes, and bottleneck_matching scatters first.
C9_ScatterOnAxisConnectorsOnCurrent ==
  (/\ out.op \in {"bottleneck_matching", "wasserstein_matching"}
   /\ out.args.ax # NoAx) =>
     /\ \A k \in 1..Len(out.draws) :
          out.draws[k].axis = IF IsConnector(out.draws[k]) THEN gca ELSE out.args.ax
     /\ out.op = "bottleneck_matching" =>
          \A k, m \in 1..Len(out.draws) :
             (IsScatter(out.draws[k]) /\ IsConnector(out.draws[m])) => k < m

\* Barcode panels
Drawable(d) == Len(d) > 0 /\ \E i \in 1..Len(d) : d[i][2] # Inf

PanelDraws(dim) == SelectSeq(out.draws, LAMBDA d : d.axis = PanelAxis(dim))

IsBar(d) == d.kind = "plot" /\ d.fmt = "-"

IsTitle(d) == d.kind = "title"

MaxFiniteDeath(d) == SetMax({d[i][2] : i \in {k \in 1..Len(d) : d[k][2] # Inf}})

InfCount(d) == Cardinality({i \in 1..Len(d) : d[i][2] = Inf})

PanelFits(dim, d) ==
  LET bars   == SelectSeq(PanelDraws(dim), IsBar)
      titles == SelectSeq(PanelDraws(dim), IsTitle)
  IN  /\ Len(bars) = Len(d)
      /\ \A k \in 1..Len(d) :
           /\ bars[k].ys = <<k - 1, k - 1>>
           /\ bars[k].xs[1] = d[k][1]
           /\ d[k][2] # Inf => bars[k].xs[2] = d[k][2]
           /\ d[k][2] = Inf => 100 * bars[k].xs[2] = 105 * MaxFiniteDeath(d)
      /\ \A k, m \in 1..Len(bars) : k # m => bars[k].ys # bars[m].ys
      /\ Len(titles) = 1
      /\ titles[1].xs[2] + titles[1].xs[3] = Len(d)
      /\ titles[1].xs[3] = InfCount(d)

\* C6: for a diagram of n bars with a finite death, bar k is drawn at slot k
\* (slots 0..n-1, none shared), a finite bar ends at its death, an infinite
\* one at 1.05 x the largest finite death, and the finite and infinite counts
\* of the title add up to n.
C6_BarcodeLayout ==
  out.op = "plot_barcode" =>
     \A dim \in 0..(Len(out.args.diagrams) - 1) :
        (\A e \in 0..dim : Drawable(orig[out.args.diagrams[e + 1]])) =>
           PanelFits(dim, orig[out.args.diagrams[dim + 1]])

\* two bars in one panel, one of them infinite
C6_Witness ==
  /\ out.op = "plot_barcode"
  /\ out.status = "ok"
  /\ \E dim \in 0..(Len(out.args.diagrams) - 1) :
        LET d == orig[out.args.diagrams[dim + 1]]
        IN  /\ Len(d) = 2
            /\ InfCount(d) = 1
            /\ MaxFiniteDeath(d) > 0
            /\ Len(SelectSeq(PanelDraws(dim), IsBar)) = 2

\* C7: whatever was called, the caller's arrays hold the values they held at
\* construction, and what the last call drew is what the same call draws from
\* those values.
C7_CallerDataUntouched ==
  /\ heap = orig
  /\ out.op = "plot_diagrams" =>
       out = Result("plot_diagrams", out.args, plot_diagrams(orig, gca, out.args))
  /\ out.op = "bottleneck_matching" =>
       out = Result("bottleneck_matching", out.args,
                    bottleneck_matching(orig, gca, out.args))
  /\ out.op = "wasserstein_matching" =>
       out = Result("wasserstein_matching", out.args,
                    wasserstein_matching(orig, gca, out.args))
  /\ out.op = "plot_barcode" =>
       out.draws = PlotPanels(orig, out.args.diagrams, 0).draws

\* a lifetime plot of a diagram with an infinite death and a positive birth,
\* made after a barcode was drawn
C7_Witness ==
  /\ out.op = "plot_diagrams"
  /\ out.status = "ok"
  /\ out.args.lifetime
  /\ gca > NAxes
  /\ \E i \in 1..Len(orig[1]) : orig[1][i][2] = Inf
  /\ \E i \in 1..Len(orig[2]) : orig[2][i][1] > 0 /\ orig[2][i][2] # Inf

\* C8 as stated: in lifetime mode every entry is plotted at (death - birth),
\* and no diagonal is drawn.
C8_LifetimeAllEntries ==
  (PlotOk /\ out.args.lifetime) =>
     /\ \A k \in 1..Len(ScatterDraws) : \A i \in 1..Len(orig[PlottedRefs[k]]) :
          ScatterDraws[k].ys[i] =
             fsub(orig[PlottedRefs[k]][i][2], orig[PlottedRefs[k]][i][1])
     /\ \A k \in 1..Len(out.draws) : ~IsDiagonalLine(out.draws[k])

\* C8, amended: in lifetime mode an entry with a finite death is plotted at
\* (death - birth), an entry with an infinite death at the infinity line, 95%
\* of the way up the y-range, and no diagonal is drawn.
C8_LifetimeFiniteEntries ==
  (PlotOk /\ out.args.lifetime) =>
     /\ Len(ScatterDraws) = Len(PlottedRefs)
     /\ \A k \in 1..Len(ScatterDraws) : \A i \in 1..Len(orig[PlottedRefs[k]]) :
          LET p == orig[PlottedRefs[k]][i]
              y == ScatterDraws[k].ys[i]
          IN  /\ ScatterDraws[k].xs[i] = p[1]
              /\ p[2] # Inf => y = p[2] - p[1]
              /\ p[2] = Inf =>
                   100 * (y - out.ylim[1]) = 95 * (out.ylim[2] - out.ylim[1])
     /\ \A k \in 1..Len(out.draws) : ~IsDiagonalLine(out.draws[k])

\* a lifetime plot, diagonal requested, of a point born after 0 and of an
\* infinite one
C8_Witness ==
  /\ PlotOk
  /\ out.args.lifetime
  /\ out.args.diagonal
  /\ \E k \in 1..Len(ScatterDraws) : \E i \in 1..Len(orig[PlottedRefs[k]]) :
        orig[PlottedRefs[k]][i][1] > 0 /\ orig[PlottedRefs[k]][i][2] # Inf
  /\ \E k \in 1..Len(ScatterDraws) : \E i \in 1..Len(orig[PlottedRefs[k]]) :
        orig[PlottedRefs[k]][i][2] = Inf

\* C10: one scatter series per plotted diagram, whatever the labels: default,
\* a list (with a label for every diagram), or one string, which then labels
\* every series in full, with plot_only too.
C10_OneSeriesPerDiagram ==
  (/\ out.op = "plot_diagrams"
   /\ out.status # "ValueError"
   /\ out.args.labels.kind = "list" => Len(out.args.labels.v) >= Len(out.args.diagrams)
   /\ \A k \in 1..Len(out.args.plot_only) :
         out.args.plot_only[k] < Len(out.args.diagrams)) =>
     /\ out.status = "ok"
     /\ Len(ScatterDraws) = Len(PlottedRefs)
     /\ out.args.labels.kind = "str" =>
          \A k \in 1..Len(ScatterDraws) : ScatterDraws[k].label = Join(out.args.labels.v)

\* C10 where it holds: default labels or a string without plot_only.
C10_OneSeriesDefaultLabels ==
  (/\ PlotOk
   /\ \/ out.args.labels.kind = "none"
      \/ out.args.labels.kind = "str" /\ out.args.plot_only = <<>>) =>
     /\ Len(ScatterDraws) = Len(PlottedRefs)
     /\ out.args.labels.kind = "str" =>
          \A k \in 1..Len(ScatterDraws) : ScatterDraws[k].label = Join(out.args.labels.v)

====
